---- MODULE Spec2Model ----
(***************************************************************************)
(* warm-fs: a file system warmer (src/src/lib.rs).                         *)
(*                                                                         *)
(* A Warmer holds directory and file targets.  iter_estimate / iter_warm   *)
(* create an mpsc channel, spawn a coordinator thread that builds a        *)
(* ThreadPool and submits one job per file target and per regular file     *)
(* entry yielded by WalkDir, and hand the receiving end to the caller as   *)
(* an Iter.  Jobs send u64 byte counts; Iter::next receives them until     *)
(* every Sender has been dropped.                                          *)
(*                                                                         *)
(* The file system is the program's input and does not change while the    *)
(* model runs.  std::sync::mpsc, threadpool::ThreadPool and                *)
(* walkdir::WalkDir are libraries: they are modelled by their documented   *)
(* behaviour at the lines of lib.rs that call them.                        *)
(***************************************************************************)
EXTENDS Integers, Sequences, FiniteSets, TLC

VARIABLES
    fs,            \* the file system the run reads (never written)
    dirs,          \* Warmer.dirs
    files,         \* Warmer.files
    num_threads,   \* Warmer.num_threads
    follow_links,  \* Warmer.follow_links
    plan,          \* how many runs the caller makes
    mode,          \* per run: "idle", "estimate" or "warm"
    co,            \* per run: the coordinator thread (the spawned closure)
    jobs,          \* per run: the jobs handed to pool.execute, in submission order
    queue,         \* per run: the pool's FIFO of jobs not yet taken by a worker
    senders,       \* per run: number of live Sender<u64> handles
    chan,          \* per run: values buffered in the channel, <<job, value>>
    rx,            \* per run: the Iter: "none", "open", "ended", "dropped"
    got            \* per run: the values next() returned, per sending job

vars == <<fs, dirs, files, num_threads, follow_links, plan, mode, co, jobs,
          queue, senders, chan, rx, got>>

session == <<dirs, files, num_threads, follow_links>>

-----------------------------------------------------------------------------
(* Bounds and program constants *)

ChunkSize == 1024

MaxThreads == 2

MaxRuns == 2

Runs == 1..MaxRuns

Min(a, b) == IF a < b THEN a ELSE b

RECURSIVE SumSeq(_)
SumSeq(s) == IF s = <<>> THEN 0 ELSE Head(s) + SumSeq(Tail(s))

RECURSIVE Concat(_)
Concat(ss) == IF ss = <<>> THEN <<>> ELSE Head(ss) \o Concat(Tail(ss))

-----------------------------------------------------------------------------
(* The file system.                                                        *)
(*   d/            directory                                               *)
(*   d/a           regular file                                            *)
(*   d/l           symbolic link (or absent), target fs.link               *)
(*   d/s/          directory                                               *)
(*   d/s/b         regular file                                            *)
(*   x             regular file outside d                                  *)
(*   e/            directory outside d                                     *)
(*   e/c           regular file                                            *)
(*   gone          no such path                                            *)

RegularFiles == {"d/a", "d/s/b", "x", "e/c"}

Directories == {"d", "d/s", "e"}

Paths == RegularFiles \cup Directories \cup {"d/l", "gone"}

Sizes == {0, 500, 1024, 2000}

Kind(p) ==
    IF p \in RegularFiles THEN "file"
    ELSE IF p \in Directories THEN "dir"
    ELSE IF p = "d/l" /\ fs.link # "absent" THEN "symlink"
    ELSE "none"

ReadDir(p) ==
    IF p = "d" THEN SelectSeq(<<"d/a", "d/l", "d/s">>, LAMBDA c : Kind(c) # "none")
    ELSE IF p = "d/s" THEN <<"d/s/b">>
    ELSE IF p = "e" THEN <<"e/c">>
    ELSE <<>>

\* the file a path denotes once symbolic links are followed
Follow(p) == IF Kind(p) = "symlink" THEN fs.link ELSE p

\* (mutant) the length is taken from the allocated 512-byte blocks
metadata_len_blocks(p) ==
    LET t == IF Kind(p) = "symlink" THEN fs.link ELSE p
    IN  IF fs.fault.op = "meta" /\ fs.fault.file = t THEN [ok |-> FALSE, len |-> 0]
        ELSE IF Kind(t) = "file" THEN [ok |-> TRUE, len |-> ((fs.size[t] + 511) \div 512) * 512]
        ELSE IF Kind(t) = "dir" THEN [ok |-> TRUE, len |-> fs.dirlen]
        ELSE [ok |-> FALSE, len |-> 0]

\* fs::metadata(path).map(|m| m.len()): links are followed; a directory has
\* the length its file system reports for it
metadata_len(p) ==
    LET t == Follow(p)
    IN  IF fs.fault.op = "meta" /\ fs.fault.file = t THEN [ok |-> FALSE, len |-> 0]
        ELSE IF Kind(t) = "file" THEN [ok |-> TRUE, len |-> fs.size[t]]
        ELSE IF Kind(t) = "dir" THEN [ok |-> TRUE, len |-> fs.dirlen]
        ELSE [ok |-> FALSE, len |-> 0]

\* Path::is_file: fs::metadata succeeds, links followed, and tells a regular file
is_file(p) == metadata_len(p).ok /\ Kind(Follow(p)) = "file"

\* Path::is_symlink: the path itself is a symbolic link
is_symlink(p) == Kind(p) = "symlink"

\* Path::canonicalize: fails on a path that does not resolve
canonicalize(p) ==
    IF Kind(Follow(p)) # "none" THEN [tag |-> "Some", path |-> Follow(p)]
    ELSE [tag |-> "Err", path |-> p]

\* File::open(path): links are followed; a directory opens (read then fails)
open_ok(p) ==
    /\ Kind(Follow(p)) # "none"
    /\ ~(fs.fault.op \in {"open", "meta"} /\ fs.fault.file = Follow(p))

\* file.read(&mut buffer) at offset off of the opened file: Ok(n) or Err
read(p, off) ==
    LET t == Follow(p)
    IN  IF Kind(t) # "file" THEN [ok |-> FALSE, n |-> 0]
        ELSE IF fs.fault.op = "read" /\ fs.fault.file = t /\ off >= fs.fault.after
             THEN [ok |-> FALSE, n |-> 0]
        ELSE [ok |-> TRUE, n |-> Min(ChunkSize, fs.size[t] - off)]

\* (mutant) a short read is taken for the end of the file
read_count_short(p, off) ==
    IF read(p, off).ok /\ read(p, off).n = ChunkSize THEN read(p, off).n ELSE 0

\* (mutant) a failed read is counted as the chunk it was asked for
read_count_error_as_data(p, off) ==
    IF read(p, off).ok THEN read(p, off).n
    ELSE IF Kind(Follow(p)) = "file" /\ fs.size[Follow(p)] > off
         THEN Min(ChunkSize, fs.size[Follow(p)] - off)
    ELSE 0

\* .unwrap_or_default() on the read result
read_count(p, off) == IF read(p, off).ok THEN read(p, off).n ELSE 0

-----------------------------------------------------------------------------
(* resolve_file and walker *)

resolve_file(path) ==
    IF is_file(path) THEN [tag |-> "Some", path |-> path]
    ELSE IF is_symlink(path) THEN canonicalize(path)
    ELSE [tag |-> "None", path |-> path]

\* WalkDir's iterator, errors already removed (filter_map(|e| e.ok())): the
\* entries in yield order, each with the file type the DirEntry reports and
\* the file its path denotes.  anc holds the directories being walked, which
\* is what WalkDir's loop check compares a followed link with.
RECURSIVE WalkEntry(_, _, _, _)
WalkEntry(p, depth, follow, anc) ==
    LET k == Kind(p)
        t == Follow(p)
        under(dir, seen) ==
            Concat([i \in 1..Len(ReadDir(dir)) |->
                        WalkEntry(ReadDir(dir)[i], depth + 1, follow, seen)])
    IN  IF k = "none" THEN <<>>
        ELSE IF k = "file" THEN <<[path |-> p, ftype |-> "file"]>>
        ELSE IF k = "dir" THEN
            <<[path |-> p, ftype |-> "dir"]>> \o under(p, anc \cup {p})
        ELSE IF follow THEN
            IF Kind(t) = "none" \/ ~metadata_len(p).ok THEN <<>>
            ELSE IF Kind(t) = "file" THEN <<[path |-> t, ftype |-> "file"]>>
            ELSE IF t \in anc THEN <<>>
            ELSE <<[path |-> t, ftype |-> "dir"]>> \o under(t, anc \cup {t})
        ELSE IF depth = 0 /\ Kind(t) = "none" THEN <<>>
        ELSE IF depth = 0 /\ Kind(t) = "dir" THEN
            <<[path |-> p, ftype |-> "symlink"]>> \o under(t, anc \cup {t})
        ELSE <<[path |-> p, ftype |-> "symlink"]>>

\* (mutant) follow_links(true) whatever the Warmer's flag
WalkDir_follows(path, follow) == WalkEntry(path, 0, TRUE, {})

WalkDir(path, follow) == WalkEntry(path, 0, follow, {})

\* (mutant) the is_file filter is left out
walker_unfiltered(path, follow) == WalkDir(path, follow)

walker(path, follow) ==
    SelectSeq(WalkDir(path, follow), LAMBDA e : e.ftype = "file")

-----------------------------------------------------------------------------
(* Initial state: Warmer::new(num_threads, follow_links) on some file system *)

NoFault == [op |-> "none", file |-> "gone", after |-> 0]

BaseSize == [f \in RegularFiles |->
                IF f = "d/a" THEN 500 ELSE IF f = "d/s/b" THEN 2000
                ELSE IF f = "x" THEN 1024 ELSE 700]

BaseFS == [size |-> BaseSize, link |-> "absent", fault |-> NoFault, dirlen |-> 4096]

\* trees of directories and regular files of every size
SizeFS == {[BaseFS EXCEPT !.size = [BaseSize EXCEPT !["d/a"] = sa, !["d/s/b"] = sb]] :
                sa \in Sizes, sb \in {0, 2000}}

\* d/l is a symbolic link to a file, a directory inside or outside d, its own
\* parent, or nothing
LinkFS == {[BaseFS EXCEPT !.link = t] : t \in {"x", "d/s", "d", "e", "gone"}}

\* a file that cannot be opened, a file that is listed in its directory but
\* whose metadata cannot be obtained (nor the file opened), and a file whose
\* read fails after the first chunk
FaultFS == {[BaseFS EXCEPT !.fault = f] :
                f \in {[op |-> "open", file |-> "d/a", after |-> 0],
                       [op |-> "meta", file |-> "d/a", after |-> 0],
                       [op |-> "read", file |-> "d/s/b", after |-> ChunkSize]}}

FileSystems == SizeFS \cup LinkFS \cup FaultFS

IdleCo == [pc |-> "none", files |-> <<>>, dirs |-> <<>>, walk |-> <<>>,
           num_threads |-> 0, follow_links |-> FALSE]

InitRuns ==
    /\ mode = [r \in Runs |-> "idle"]
    /\ co = [r \in Runs |-> IdleCo]
    /\ jobs = [r \in Runs |-> <<>>]
    /\ queue = [r \in Runs |-> <<>>]
    /\ senders = [r \in Runs |-> 0]
    /\ chan = [r \in Runs |-> <<>>]
    /\ rx = [r \in Runs |-> "none"]
    /\ got = [r \in Runs |-> <<>>]

\* follow_links is read by walker alone, where it decides what a symbolic
\* link yields: the flag is set on the base tree and on the trees with a link
Init ==
    /\ fs \in FileSystems
    /\ dirs = <<>>
    /\ files = <<>>
    /\ num_threads \in 0..MaxThreads
    /\ follow_links \in (IF fs \in LinkFS \cup {BaseFS} THEN BOOLEAN ELSE {FALSE})
    /\ plan = 1
    /\ InitRuns

-----------------------------------------------------------------------------
(* The caller: add_dirs, add_files, iter_estimate, iter_warm *)

DirArgs == {<<"d">>, <<"gone">>, <<"d/l">>}

FileArgs == {<<"x">>, <<"d/a">>, <<"d/l">>, <<"d">>, <<"gone">>}

\* the caller gives each list once, before its first run
NoRunYet == \A r \in Runs : mode[r] = "idle"

add_dirs(paths) ==
    /\ NoRunYet
    /\ dirs = <<>>
    /\ dirs' = dirs \o paths
    /\ UNCHANGED <<fs, files, num_threads, follow_links, plan, mode, co, jobs,
                   queue, senders, chan, rx, got>>

add_files(paths) ==
    /\ NoRunYet
    /\ files = <<>>
    /\ files' = files \o paths
    /\ UNCHANGED <<fs, dirs, num_threads, follow_links, plan, mode, co, jobs,
                   queue, senders, chan, rx, got>>

\* the caller starts run r once it has drained the runs before it
MayStart(r) ==
    /\ r <= plan
    /\ mode[r] = "idle"
    /\ \A q \in Runs : q < r => rx[q] = "ended"

\* (mutant) the run takes the target lists out of the Warmer (mem::take)
\* instead of cloning them
Begin_takes(r, m) ==
    /\ mode' = [mode EXCEPT ![r] = m]
    /\ co' = [co EXCEPT ![r] = [pc |-> "spawned", files |-> files, dirs |-> dirs,
                                 walk |-> <<>>, num_threads |-> num_threads,
                                 follow_links |-> follow_links]]
    /\ senders' = [senders EXCEPT ![r] = 1]
    /\ rx' = [rx EXCEPT ![r] = "open"]
    /\ files' = <<>>
    /\ dirs' = <<>>
    /\ UNCHANGED <<fs, num_threads, follow_links, plan, jobs, queue, chan, got>>

\* channel(), the clones of the Warmer's fields, thread::spawn, Iter { rx }
Begin(r, m) ==
    /\ mode' = [mode EXCEPT ![r] = m]
    /\ co' = [co EXCEPT ![r] = [pc |-> "spawned", files |-> files, dirs |-> dirs,
                                 walk |-> <<>>, num_threads |-> num_threads,
                                 follow_links |-> follow_links]]
    /\ senders' = [senders EXCEPT ![r] = 1]
    /\ rx' = [rx EXCEPT ![r] = "open"]
    /\ UNCHANGED <<fs, session, plan, jobs, queue, chan, got>>

StartRun(r, m) == MayStart(r) /\ Begin(r, m)

iter_estimate(r) == StartRun(r, "estimate")

\* a caller that keeps the Iter of a run and starts the next run before the
\* first stream has ended (iter_* take &self)
StartOverlapped(r, m) ==
    /\ r <= plan
    /\ mode[r] = "idle"
    /\ \A q \in Runs : q < r => mode[q] # "idle"
    /\ \E q \in Runs : q < r /\ rx[q] = "open"
    /\ Begin(r, m)

iter_warm(r) == StartRun(r, "warm")

-----------------------------------------------------------------------------
(* The channel: Sender::clone, Sender::send, drop(Sender), Receiver::recv *)

\* (mutant) a channel of capacity 1 written with try_send: a value that finds
\* the buffer full is discarded
send_lossy(r, j, v) ==
    IF rx[r] = "dropped" \/ Len(chan[r]) >= 1 THEN chan[r] ELSE Append(chan[r], <<j, v>>)

\* (mutant) a stack instead of a queue: the newest value is received first
send_lifo(r, j, v) == IF rx[r] = "dropped" THEN chan[r] ELSE <<<<j, v>>>> \o chan[r]

\* tx.send(v).ok(): the value is queued while the Receiver lives; once the
\* Iter has been dropped send returns Err, which .ok() discards
send(r, j, v) == IF rx[r] = "dropped" THEN chan[r] ELSE Append(chan[r], <<j, v>>)

\* (mutant) try_recv: an empty buffer is taken for the end
Disconnected_empty(r) == chan[r] = <<>>

\* (mutant) one channel for the whole Warmer: the end waits for the Senders
\* of every run
Disconnected_shared(r) == chan[r] = <<>> /\ \A q \in Runs : senders[q] = 0

\* recv() reports Err only when the buffer is empty and no Sender is left
Disconnected(r) == chan[r] = <<>> /\ senders[r] = 0

-----------------------------------------------------------------------------
(* The coordinator thread: the closure given to thread::spawn *)

NewJob(src, path) ==
    [src |-> src, path |-> path, pc |-> "queued", starts |-> 0, opened |-> "",
     off |-> 0, sent |-> <<>>, sends |-> 0]

\* let tx = tx.clone(); pool.execute(move || ...)
Submit(r, src, path) ==
    /\ jobs' = [jobs EXCEPT ![r] = Append(@, NewJob(src, path))]
    /\ queue' = [queue EXCEPT ![r] = Append(@, Len(jobs[r]) + 1)]
    /\ got' = [got EXCEPT ![r] = Append(@, <<>>)]
    /\ senders' = [senders EXCEPT ![r] = @ + 1]

\* (mutant) a pool of no worker is built without complaint
PoolNew_unchecked(r) ==
    /\ co[r].pc = "spawned"
    /\ co' = [co EXCEPT ![r].pc = "loop"]
    /\ UNCHANGED <<fs, session, plan, mode, jobs, queue, senders, chan, rx, got>>

\* ThreadPool::new(num_threads) asserts num_threads >= 1: with 0 the thread
\* panics and unwinding drops tx
PoolNew(r) ==
    /\ co[r].pc = "spawned"
    /\ IF co[r].num_threads >= 1
       THEN /\ co' = [co EXCEPT ![r].pc = "loop"]
            /\ UNCHANGED senders
       ELSE /\ co' = [co EXCEPT ![r].pc = "panicked"]
            /\ senders' = [senders EXCEPT ![r] = @ - 1]
    /\ UNCHANGED <<fs, session, plan, mode, jobs, queue, chan, rx, got>>

\* for file in files { ... pool.execute(...) }
SubmitFile(r) ==
    /\ co[r].pc = "loop"
    /\ co[r].files # <<>>
    /\ Submit(r, "file", Head(co[r].files))
    /\ co' = [co EXCEPT ![r].files = Tail(@)]
    /\ UNCHANGED <<fs, session, plan, mode, chan, rx>>

\* for dir in dirs { for entry in walker(dir, follow_links) ...
NextDir(r) ==
    /\ co[r].pc = "loop"
    /\ co[r].files = <<>>
    /\ co[r].walk = <<>>
    /\ co[r].dirs # <<>>
    /\ co' = [co EXCEPT ![r].dirs = Tail(@),
                         ![r].walk = walker(Head(co[r].dirs), co[r].follow_links)]
    /\ UNCHANGED <<fs, session, plan, mode, jobs, queue, senders, chan, rx, got>>

\* (mutant) pool.join() after each execute: the next entry is submitted once
\* the pool is idle
SubmitEntry_joins(r) ==
    /\ co[r].pc = "loop"
    /\ co[r].files = <<>>
    /\ co[r].walk # <<>>
    /\ queue[r] = <<>> /\ \A j \in 1..Len(jobs[r]) : jobs[r][j].pc = "done"
    /\ Submit(r, "entry", Head(co[r].walk).path)
    /\ co' = [co EXCEPT ![r].walk = Tail(@)]
    /\ UNCHANGED <<fs, session, plan, mode, chan, rx>>

\* ... { let tx = tx.clone(); pool.execute(...) } }
SubmitEntry(r) ==
    /\ co[r].pc = "loop"
    /\ co[r].files = <<>>
    /\ co[r].walk # <<>>
    /\ Submit(r, "entry", Head(co[r].walk).path)
    /\ co' = [co EXCEPT ![r].walk = Tail(@)]
    /\ UNCHANGED <<fs, session, plan, mode, chan, rx>>

\* (mutant) the coordinator's tx outlives the closure
CoordinatorExit_keeps_tx(r) ==
    /\ co[r].pc = "loop"
    /\ co[r].files = <<>>
    /\ co[r].walk = <<>>
    /\ co[r].dirs = <<>>
    /\ co' = [co EXCEPT ![r].pc = "done"]
    /\ UNCHANGED <<fs, session, plan, mode, jobs, queue, senders, chan, rx, got>>

\* the closure returns: pool and tx are dropped.  Dropping the ThreadPool
\* joins nothing; its workers go on until the queue is empty
CoordinatorExit(r) ==
    /\ co[r].pc = "loop"
    /\ co[r].files = <<>>
    /\ co[r].walk = <<>>
    /\ co[r].dirs = <<>>
    /\ co' = [co EXCEPT ![r].pc = "done"]
    /\ senders' = [senders EXCEPT ![r] = @ - 1]
    /\ UNCHANGED <<fs, session, plan, mode, jobs, queue, chan, rx, got>>

-----------------------------------------------------------------------------
(* The pool's workers and the jobs *)

Executing(r) == {j \in 1..Len(jobs[r]) : jobs[r][j].pc \in {"running", "reading", "returning"}}

\* (mutant) a thread per job
IdleWorker_unbounded(r) == TRUE

\* ThreadPool::new(num_threads) starts num_threads workers, each running one
\* job at a time
IdleWorker(r) == Cardinality(Executing(r)) < co[r].num_threads

\* (mutant) the workers stop taking jobs once the pool has been dropped
JobStart_until_drop(r) ==
    /\ queue[r] # <<>>
    /\ co[r].pc = "loop"
    /\ Cardinality(Executing(r)) < co[r].num_threads
    /\ jobs' = [jobs EXCEPT ![r][Head(queue[r])].pc = "running",
                             ![r][Head(queue[r])].starts = @ + 1]
    /\ queue' = [queue EXCEPT ![r] = Tail(@)]
    /\ UNCHANGED <<fs, session, plan, mode, co, senders, chan, rx, got>>

\* a worker takes the job at the head of the queue
JobStart(r) ==
    /\ queue[r] # <<>>
    /\ IdleWorker(r)
    /\ jobs' = [jobs EXCEPT ![r][Head(queue[r])].pc = "running",
                             ![r][Head(queue[r])].starts = @ + 1]
    /\ queue' = [queue EXCEPT ![r] = Tail(@)]
    /\ UNCHANGED <<fs, session, plan, mode, co, senders, chan, rx, got>>

\* (mutant) unwrap_or(0): a path without metadata is sent as 0
EstimateValue_zero(job) ==
    LET res == IF job.src = "file" THEN resolve_file(job.path)
               ELSE [tag |-> "Some", path |-> job.path]
    IN  IF res.tag = "Some" /\ metadata_len(res.path).ok
        THEN <<metadata_len(res.path).len>>
        ELSE <<0>>

\* (mutant) a len of 0 is not sent
EstimateValue_skips_empty(job) ==
    LET res == IF job.src = "file" THEN resolve_file(job.path)
               ELSE [tag |-> "Some", path |-> job.path]
    IN  IF res.tag = "Some" /\ metadata_len(res.path).ok /\ metadata_len(res.path).len > 0
        THEN <<metadata_len(res.path).len>>
        ELSE <<>>

\* what an estimate job sends: the len of the resolved file target, or of the entry
EstimateValue(job) ==
    LET res == IF job.src = "file" THEN resolve_file(job.path)
               ELSE [tag |-> "Some", path |-> job.path]
    IN  IF res.tag = "Some" /\ metadata_len(res.path).ok
        THEN <<metadata_len(res.path).len>>
        ELSE <<>>

\* the body of an estimate job
EstimateJob(r, j) ==
    /\ mode[r] = "estimate"
    /\ jobs[r][j].pc = "running"
    /\ LET v == EstimateValue(jobs[r][j])
       IN  IF v = <<>>
           THEN /\ jobs' = [jobs EXCEPT ![r][j].pc = "returning"]
                /\ UNCHANGED chan
           ELSE /\ chan' = [chan EXCEPT ![r] = send(r, j, v[1])]
                /\ jobs' = [jobs EXCEPT ![r][j].pc = "returning",
                                         ![r][j].sends = @ + 1,
                                         ![r][j].sent = IF rx[r] = "dropped" THEN @
                                                        ELSE Append(@, v[1])]
    /\ UNCHANGED <<fs, session, plan, mode, co, queue, senders, rx, got>>

\* the path a warm job opens: the resolved file target, or the entry's path
WarmPath(job) ==
    LET res == IF job.src = "file" THEN resolve_file(job.path)
               ELSE [tag |-> "Some", path |-> job.path]
    IN  IF res.tag = "Some" THEN <<res.path>> ELSE <<>>

\* a warm job up to File::open
WarmOpen(r, j) ==
    /\ mode[r] = "warm"
    /\ jobs[r][j].pc = "running"
    /\ LET p == WarmPath(jobs[r][j])
       IN  IF p # <<>> /\ open_ok(p[1])
           THEN jobs' = [jobs EXCEPT ![r][j].pc = "reading", ![r][j].opened = p[1]]
           ELSE jobs' = [jobs EXCEPT ![r][j].pc = "returning"]
    /\ UNCHANGED <<fs, session, plan, mode, co, queue, senders, chan, rx, got>>

\* (mutant) the loop ends when send fails
WarmRead_stop_on_send_error(r, j) ==
    /\ jobs[r][j].pc = "reading"
    /\ LET count == read_count(jobs[r][j].opened, jobs[r][j].off)
       IN  IF count = 0 \/ rx[r] = "dropped"
           THEN /\ jobs' = [jobs EXCEPT ![r][j].pc = "returning"]
                /\ UNCHANGED chan
           ELSE /\ chan' = [chan EXCEPT ![r] = send(r, j, count)]
                /\ jobs' = [jobs EXCEPT ![r][j].off = @ + count,
                                         ![r][j].sends = @ + 1,
                                         ![r][j].sent = Append(@, count)]
    /\ UNCHANGED <<fs, session, plan, mode, co, queue, senders, rx, got>>

\* one turn of warm_file's loop: read, break on 0, send the count
WarmRead(r, j) ==
    /\ jobs[r][j].pc = "reading"
    /\ LET count == read_count(jobs[r][j].opened, jobs[r][j].off)
       IN  IF count = 0
           THEN /\ jobs' = [jobs EXCEPT ![r][j].pc = "returning"]
                /\ UNCHANGED chan
           ELSE /\ chan' = [chan EXCEPT ![r] = send(r, j, count)]
                /\ jobs' = [jobs EXCEPT ![r][j].off = @ + count,
                                         ![r][j].sends = @ + 1,
                                         ![r][j].sent = IF rx[r] = "dropped" THEN @
                                                        ELSE Append(@, count)]
    /\ UNCHANGED <<fs, session, plan, mode, co, queue, senders, rx, got>>

\* the job returns: its tx clone is dropped and the worker is free again
JobReturn(r, j) ==
    /\ jobs[r][j].pc = "returning"
    /\ jobs' = [jobs EXCEPT ![r][j].pc = "done"]
    /\ senders' = [senders EXCEPT ![r] = @ - 1]
    /\ UNCHANGED <<fs, session, plan, mode, co, queue, chan, rx, got>>

-----------------------------------------------------------------------------
(* The Iter *)

\* Iter::next: self.rx.recv().ok(); blocks while the buffer is empty and a
\* Sender is alive
next(r) ==
    /\ rx[r] = "open"
    /\ IF chan[r] # <<>>
       THEN /\ got' = [got EXCEPT ![r][Head(chan[r])[1]] = Append(@, Head(chan[r])[2])]
            /\ chan' = [chan EXCEPT ![r] = Tail(@)]
            /\ UNCHANGED rx
       ELSE /\ Disconnected(r)
            /\ rx' = [rx EXCEPT ![r] = "ended"]
            /\ UNCHANGED <<chan, got>>
    /\ UNCHANGED <<fs, session, plan, mode, co, jobs, queue, senders>>

\* the caller drops the Iter before its end: the Receiver and what it
\* buffers are gone
DropIter(r) ==
    /\ rx[r] = "open"
    /\ rx' = [rx EXCEPT ![r] = "dropped"]
    /\ chan' = [chan EXCEPT ![r] = <<>>]
    /\ UNCHANGED <<fs, session, plan, mode, co, jobs, queue, senders, got>>

\* Iterator::sum over what next() returned: the result of estimate() / warm()
Total(r) == SumSeq(Concat(got[r]))

-----------------------------------------------------------------------------

Coordinator(r) ==
    \/ PoolNew(r)
    \/ SubmitFile(r)
    \/ NextDir(r)
    \/ SubmitEntry(r)
    \/ CoordinatorExit(r)

Worker(r) ==
    \/ JobStart(r)
    \/ \E j \in 1..Len(jobs[r]) :
          \/ EstimateJob(r, j)
          \/ WarmOpen(r, j)
          \/ WarmRead(r, j)
          \/ JobReturn(r, j)

Caller ==
    \/ \E paths \in DirArgs : add_dirs(paths)
    \/ \E paths \in FileArgs : add_files(paths)
    \/ \E r \in Runs : iter_estimate(r) \/ iter_warm(r)
    \/ \E r \in Runs : DropIter(r)

Next ==
    \/ Caller
    \/ \E r \in Runs : next(r)
    \/ \E r \in Runs : Coordinator(r)
    \/ \E r \in Runs : Worker(r)

\* A caller that drains every stream it starts, as estimate() and warm() do
\* with sum() and examples/cli.rs with its for loops: Next without DropIter
NextDrained ==
    \/ \E paths \in DirArgs : add_dirs(paths)
    \/ \E paths \in FileArgs : add_files(paths)
    \/ \E r \in Runs : iter_estimate(r) \/ iter_warm(r)
    \/ \E r \in Runs : next(r)
    \/ \E r \in Runs : Coordinator(r)
    \/ \E r \in Runs : Worker(r)

Spec == Init /\ [][NextDrained]_vars

\* The coordinator and the workers are operating-system threads: each one
\* that can take a step eventually takes one.  The consumer of the liveness
\* claims keeps calling next().
Fairness ==
    \A r \in Runs :
        /\ WF_vars(Coordinator(r))
        /\ WF_vars(Worker(r))
        /\ WF_vars(next(r))

LiveFS == {BaseFS,
           [BaseFS EXCEPT !.fault = [op |-> "read", file |-> "d/s/b", after |-> ChunkSize]]}

InitLive ==
    /\ fs \in LiveFS
    /\ dirs = <<>>
    /\ files = <<>>
    /\ num_threads \in 1..MaxThreads
    /\ follow_links \in BOOLEAN
    /\ plan = 1
    /\ InitRuns

LiveSpec == InitLive /\ [][Next]_vars /\ Fairness

\* A caller that makes one run after the other on the same Warmer, as
\* examples/cli.rs does (iter_estimate, then iter_warm), without --follow-links
SeqFS == {BaseFS, [BaseFS EXCEPT !.fault = [op |-> "open", file |-> "d/a", after |-> 0]]}

InitSeq ==
    /\ fs \in SeqFS
    /\ dirs = <<>>
    /\ files = <<>>
    /\ num_threads \in 0..MaxThreads
    /\ follow_links = FALSE
    /\ plan = MaxRuns
    /\ InitRuns

SeqSpec == InitSeq /\ [][Next]_vars

\* A caller that holds two streams of one Warmer at the same time
InitOverlap ==
    /\ fs = BaseFS
    /\ dirs = <<>>
    /\ files = <<>>
    /\ num_threads = 1
    /\ follow_links = FALSE
    /\ plan = 2
    /\ InitRuns

NextOverlap ==
    \/ Next
    \/ \E r \in Runs, m \in {"estimate", "warm"} : StartOverlapped(r, m)

OverlapSpec == InitOverlap /\ [][NextOverlap]_vars

-----------------------------------------------------------------------------
(* What the claims are stated with *)

Ended(r) == rx[r] = "ended"

\* Number of values next() returned in run r
Count(r) == Len(Concat(got[r]))

Parent(p) ==
    IF p \in {"d/a", "d/l", "d/s"} THEN "d"
    ELSE IF p = "d/s/b" THEN "d/s"
    ELSE IF p = "e/c" THEN "e"
    ELSE "/"

\* the regular files of the tree rooted at directory d, by containment
TreeFiles(d) == {f \in RegularFiles : Parent(f) = d \/ Parent(Parent(f)) = d}

SymlinksIn(d) == {p \in Paths : Kind(p) = "symlink" /\ (Parent(p) = d \/ Parent(Parent(p)) = d)}

RECURSIVE SumSizes(_)
SumSizes(S) ==
    IF S = {} THEN 0
    ELSE LET f == CHOOSE f \in S : TRUE IN fs.size[f] + SumSizes(S \ {f})

Readable(f) == fs.fault.op = "none" \/ fs.fault.file # f

CeilDiv(a, b) == (a + b - 1) \div b

\* a run whose only target is the directory d
OnlyDir(r, d) ==
    /\ mode[r] # "idle" /\ dirs = <<d>> /\ files = <<>> /\ Kind(d) = "dir"

\* a run whose only target is the regular file f, given as a file
OnlyFile(r, f) ==
    /\ mode[r] # "idle" /\ dirs = <<>> /\ files = <<f>> /\ Kind(f) = "file"

\* C1 as stated: estimate() on a directory returns the sum of the sizes of
\* the tree's regular files, for every numThreads >= 1.
C1_AsStated ==
    \A r \in Runs : \A d \in Directories :
        (/\ OnlyDir(r, d) /\ mode[r] = "estimate" /\ Ended(r)
         /\ co[r].num_threads >= 1
         /\ \A f \in TreeFiles(d) : Readable(f))
        => Total(r) = SumSizes(TreeFiles(d))

\* C1 amended: the same when followLinks is false or the tree holds no
\* symbolic link.
C1_EstimateIsTreeSum ==
    \A r \in Runs : \A d \in Directories :
        (/\ OnlyDir(r, d) /\ mode[r] = "estimate" /\ Ended(r)
         /\ co[r].num_threads >= 1
         /\ \A f \in TreeFiles(d) : Readable(f)
         /\ (~co[r].follow_links \/ SymlinksIn(d) = {}))
        => Total(r) = SumSizes(TreeFiles(d))

C1_Witness ==
    \E r \in Runs :
        /\ OnlyDir(r, "d") /\ mode[r] = "estimate" /\ Ended(r)
        /\ co[r].num_threads = 2
        /\ fs.fault.op = "none" /\ SymlinksIn("d") = {}
        /\ Total(r) = 2500 /\ Count(r) = 2

\* C2 as stated: warm() on a single regular file of size S returns S, in
\* ceil(S/1024) values.
C2_AsStated ==
    \A r \in Runs : \A f \in RegularFiles :
        (/\ OnlyFile(r, f) /\ mode[r] = "warm" /\ Ended(r)
         /\ co[r].num_threads >= 1)
        => /\ Total(r) = fs.size[f]
           /\ Count(r) = CeilDiv(fs.size[f], ChunkSize)

\* C2 amended: the same for a file that can be opened and read without error.
C2_WarmSingleFile ==
    \A r \in Runs : \A f \in RegularFiles :
        (/\ OnlyFile(r, f) /\ mode[r] = "warm" /\ Ended(r)
         /\ co[r].num_threads >= 1
         /\ Readable(f))
        => /\ Total(r) = fs.size[f]
           /\ Count(r) = CeilDiv(fs.size[f], ChunkSize)

C2_Witness ==
    \E r \in Runs :
        /\ OnlyFile(r, "d/a") /\ mode[r] = "warm" /\ Ended(r)
        /\ fs.size["d/a"] = 2000 /\ Readable("d/a")
        /\ got[r] = << <<1024, 976>> >>

\* C4: the number of jobs that have started and not yet returned never
\* exceeds num_threads, however many jobs were submitted.
C4_AtMostKExecuting ==
    \A r \in Runs : Cardinality(Executing(r)) <= co[r].num_threads

C4_Witness ==
    \E r \in Runs :
        /\ co[r].num_threads = 2
        /\ Cardinality(Executing(r)) = 2
        /\ queue[r] # <<>>

\* C5: when next() has reported end-of-stream, the coordinator has released
\* its sender (it is not walking or submitting any more) and every submitted
\* job has returned and released its clone: none is queued or running.
C5_EndOnlyAfterAllSendersDropped ==
    \A r \in Runs :
        Ended(r) =>
            /\ co[r].pc \in {"done", "panicked"}
            /\ queue[r] = <<>>
            /\ \A j \in 1..Len(jobs[r]) : jobs[r][j].pc = "done"
            /\ senders[r] = 0

C5_Witness ==
    \E r \in Runs :
        /\ Ended(r) /\ co[r].pc = "done" /\ co[r].num_threads = 2
        /\ Len(jobs[r]) = 3 /\ Count(r) >= 3

\* C6: at end-of-stream next() has returned every value a job sent, once
\* each and in the job's order, so the sum is the sum of all values sent.
C6_NothingLostOrDuplicated ==
    \A r \in Runs :
        Ended(r) =>
            /\ \A j \in 1..Len(jobs[r]) : got[r][j] = jobs[r][j].sent
            /\ Total(r) = SumSeq(Concat([j \in 1..Len(jobs[r]) |-> jobs[r][j].sent]))

C6_Witness ==
    \E r \in Runs :
        /\ Ended(r) /\ mode[r] = "warm" /\ Len(jobs[r]) = 3
        /\ Total(r) = 3524 /\ Count(r) = 4

\* The total and the number of values of a run over targets that are plain
\* regular files and trees of plain regular files: a file target counts when
\* it is a regular file, a directory target counts the files of its tree.
SeqToSet(s) == {s[i] : i \in 1..Len(s)}

PlainFS == fs.fault.op = "none" /\ fs.link = "absent"

ValuesOf(m, f) == IF m = "estimate" THEN 1 ELSE CeilDiv(fs.size[f], ChunkSize)

RECURSIVE SumValues(_, _)
SumValues(m, S) ==
    IF S = {} THEN 0
    ELSE LET f == CHOOSE f \in S : TRUE IN ValuesOf(m, f) + SumValues(m, S \ {f})

TargetFiles(t, asDir) ==
    IF Kind(t) = "file" /\ ~asDir THEN {t}
    ELSE IF Kind(t) = "dir" /\ asDir THEN TreeFiles(t)
    ELSE {}

\* each target counts on its own: a file given as a file target and lying in
\* a directory target is counted twice
PlainTotal ==
    SumSeq([i \in 1..Len(files) |-> SumSizes(TargetFiles(files[i], FALSE))])
    + SumSeq([i \in 1..Len(dirs) |-> SumSizes(TargetFiles(dirs[i], TRUE))])

PlainCount(m) ==
    SumSeq([i \in 1..Len(files) |-> SumValues(m, TargetFiles(files[i], FALSE))])
    + SumSeq([i \in 1..Len(dirs) |-> SumValues(m, TargetFiles(dirs[i], TRUE))])

HasMissingTarget == "gone" \in SeqToSet(files) \cup SeqToSet(dirs)

\* C9: a target path that does not exist sends nothing and aborts nothing:
\* the run ends with the other targets counted in full.
C9_MissingTargetCountsNothing ==
    \A r \in Runs :
        (/\ Ended(r) /\ HasMissingTarget /\ PlainFS /\ co[r].num_threads >= 1)
        => /\ co[r].pc = "done"
           /\ \A j \in 1..Len(jobs[r]) :
                 jobs[r][j].path = "gone" => jobs[r][j].sends = 0 /\ got[r][j] = <<>>
           /\ Total(r) = PlainTotal
           /\ Count(r) = PlainCount(mode[r])

C9_Witness ==
    \E r \in Runs :
        /\ Ended(r) /\ PlainFS /\ mode[r] = "warm"
        /\ files = <<"gone">> /\ dirs = <<"d">>
        /\ Len(jobs[r]) = 3 /\ Total(r) = 2500

C9_WitnessDir ==
    \E r \in Runs :
        /\ Ended(r) /\ PlainFS /\ mode[r] = "estimate"
        /\ files = <<"x">> /\ dirs = <<"gone">>
        /\ Len(jobs[r]) = 1 /\ Total(r) = 1024

\* C3: with the coordinator and the workers scheduled fairly, a consumer
\* that keeps calling next() on the stream of a run with numThreads >= 1
\* receives end-of-stream (unless it drops the stream first).
C3_StreamEnds ==
    \A r \in Runs :
        (rx[r] = "open" /\ co[r].num_threads >= 1) ~> (Ended(r) \/ rx[r] = "dropped")

C3_Witness ==
    \E r \in Runs :
        /\ Ended(r) /\ co[r].pc = "done" /\ Len(jobs[r]) = 3
        /\ \A j \in 1..Len(jobs[r]) : jobs[r][j].pc = "done"

\* the jobs run r submits: one per file target, then one per regular file
\* each directory walk yields
RECURSIVE WalkAll(_, _)
WalkAll(ds, follow) ==
    IF ds = <<>> THEN <<>> ELSE walker(Head(ds), follow) \o WalkAll(Tail(ds), follow)

Submitted(r) == [j \in 1..Len(jobs[r]) |-> <<jobs[r][j].src, jobs[r][j].path>>]

ExpectedJobs(follow) ==
    [i \in 1..Len(files) |-> <<"file", files[i]>>]
    \o [i \in 1..Len(WalkAll(dirs, follow)) |-> <<"entry", WalkAll(dirs, follow)[i].path>>]

AllExecuted(r) ==
    /\ co[r].pc = "done"
    /\ queue[r] = <<>>
    /\ \A j \in 1..Len(jobs[r]) : jobs[r][j].pc = "done" /\ jobs[r][j].starts = 1

\* C7: the coordinator submits exactly one job per file target and per
\* regular file a walk yields, and every submitted job is executed, once,
\* also those still queued when the coordinator lets go of the pool.
C7_EveryJobRunsOnce ==
    \A r \in Runs :
        (co[r].pc = "loop") ~>
            (/\ AllExecuted(r)
             /\ Submitted(r) = ExpectedJobs(co[r].follow_links))

C7_Witness ==
    \E r \in Runs :
        /\ co[r].pc = "done" /\ Len(queue[r]) >= 2
        /\ Len(jobs[r]) = 3

\* a warm job has read its file to the end (or to the read that failed)
ReadToEnd(r, j) ==
    jobs[r][j].pc = "done" /\ jobs[r][j].starts = 1
    /\ (mode[r] = "warm" /\ jobs[r][j].src = "entry")
            => /\ Readable(jobs[r][j].path) => jobs[r][j].opened = jobs[r][j].path
               /\ jobs[r][j].opened # "" =>
                     /\ read_count(jobs[r][j].opened, jobs[r][j].off) = 0
                     /\ Readable(jobs[r][j].path) => jobs[r][j].off = fs.size[jobs[r][j].path]

\* C8: once the consumer has dropped the stream the background work goes on
\* to its end: the coordinator submits every job and every job runs to
\* completion, a warm job reading all the chunks of its file, and what they
\* send is discarded (nothing is left in the channel).
C8_DropDoesNotStopTheRun ==
    \A r \in Runs :
        (rx[r] = "dropped" /\ co[r].num_threads >= 1) ~>
            (/\ AllExecuted(r)
             /\ Len(jobs[r]) = Len(ExpectedJobs(co[r].follow_links))
             /\ \A j \in 1..Len(jobs[r]) : ReadToEnd(r, j)
             /\ chan[r] = <<>>)

C8_Witness ==
    \E r \in Runs :
        /\ rx[r] = "dropped" /\ mode[r] = "warm" /\ AllExecuted(r)
        /\ \E j \in 1..Len(jobs[r]) :
              jobs[r][j].sends = 2 /\ jobs[r][j].sent = <<>> /\ jobs[r][j].off = 2000

\* every file target is a regular file and every directory target a
\* directory, and every regular file can be opened and read
PlainTargets ==
    /\ \A i \in 1..Len(files) : Kind(files[i]) = "file"
    /\ \A i \in 1..Len(dirs) : Kind(dirs[i]) = "dir"
    /\ fs.fault.op = "none"

\* C10: over targets that are readable regular files and directories of
\* readable regular files, an estimate run and a warm run of the same
\* session, both drained, have the same total.
C10_EstimateEqualsWarm ==
    \A r1, r2 \in Runs :
        (/\ mode[r1] = "estimate" /\ Ended(r1)
         /\ mode[r2] = "warm" /\ Ended(r2)
         /\ PlainTargets)
        => Total(r1) = Total(r2)

C10_Witness ==
    /\ mode[1] = "estimate" /\ Ended(1)
    /\ mode[2] = "warm" /\ Ended(2)
    /\ PlainTargets /\ dirs = <<"d">> /\ files = <<"x">>
    /\ Total(1) = 3524 /\ Count(1) = 3
    /\ Total(2) = 3524 /\ Count(2) = 4

-----------------------------------------------------------------------------
\* C11: on an unchanged file system two runs of the same kind on the same
\* Warmer, each drained to its end, return the same total whatever the
\* interleaving of their threads, and no step of a run changes the file system
C11_Idempotent ==
    /\ [](\A r, q \in Runs :
            (Ended(r) /\ Ended(q) /\ mode[r] = mode[q]) => Total(r) = Total(q))
    /\ [][fs' = fs]_vars

\* two runs of the same kind, of two jobs or more, have ended with a total
C11_Witness ==
    /\ Ended(1) /\ Ended(2)
    /\ mode[1] = mode[2]
    /\ Len(jobs[1]) >= 2
    /\ Total(2) > 0

-----------------------------------------------------------------------------
IsPrefix(a, b) == Len(a) <= Len(b) /\ a = SubSeq(b, 1, Len(a))

\* C12: each run has its own channel and pool.  With two runs of one Warmer
\* in progress together, what a stream returned for a job is what that job of
\* that run sent; a stream whose own Senders are gone and whose buffer is
\* empty ends, whatever the other run is doing, and it ends only after its own
\* jobs returned; starting a run leaves dirs, files, num_threads and
\* follow_links as they were
C12_RunsAreIndependent ==
    /\ [](\A r \in Runs :
            /\ \A j \in 1..Len(jobs[r]) : IsPrefix(got[r][j], jobs[r][j].sent)
            /\ (rx[r] = "open" /\ senders[r] = 0 /\ chan[r] = <<>>) => ENABLED next(r)
            /\ Ended(r) => \A j \in 1..Len(jobs[r]) :
                              jobs[r][j].pc = "done" /\ got[r][j] = jobs[r][j].sent)
    /\ [][(\E r \in Runs : mode[r] = "idle" /\ mode'[r] # "idle")
             => session' = session]_vars

\* the second run has ended with its values while a job of the first run,
\* started before it, is still executing
C12_Witness ==
    /\ Ended(2)
    /\ Count(2) > 0
    /\ rx[1] = "open"
    /\ Executing(1) # {}

-----------------------------------------------------------------------------
\* the number of jobs that run r submitted from its directory walks for file f
Times(r, f) ==
    Cardinality({j \in 1..Len(jobs[r]) : jobs[r][j].src = "entry" /\ jobs[r][j].path = f})

\* the directory d/l links to, when it links to one
LinkedDir == IF fs.link \in Directories THEN {fs.link} ELSE {}

\* C13 as stated: for the directory target d holding a symbolic link to
\* another directory, no file of the linked directory is counted with
\* followLinks = false; with followLinks = true each file of the linked
\* directory is counted exactly once, also when the link leads back to d
C13_AsStated ==
    \A r \in Runs : \A t \in LinkedDir :
        (OnlyDir(r, "d") /\ co[r].pc = "done") =>
            \A f \in TreeFiles(t) :
                /\ (~co[r].follow_links /\ t # "d") => Times(r, f) = 0
                /\ co[r].follow_links => Times(r, f) = 1

\* C13 amended: for a link to a directory outside the target's tree, no file
\* of the linked directory is counted with followLinks = false and each is
\* counted exactly once with followLinks = true; a link to the target itself
\* (a cycle) adds nothing to the walk, each file of the tree is counted once;
\* in both cases the run does not stop before its stream has ended and the
\* total is the sum of the sizes counted
C13_LinkedDirectory ==
    \A r \in Runs : \A t \in LinkedDir :
        OnlyDir(r, "d") =>
            /\ (co[r].pc = "done" /\ TreeFiles(t) \cap TreeFiles("d") = {}) =>
                   /\ \A f \in TreeFiles(t) :
                          Times(r, f) = IF co[r].follow_links THEN 1 ELSE 0
                   /\ \A f \in TreeFiles("d") : Times(r, f) = 1
            /\ (co[r].pc = "done" /\ t = "d") =>
                   /\ \A f \in TreeFiles("d") : Times(r, f) = 1
                   /\ Len(jobs[r]) = Cardinality(TreeFiles("d"))
            /\ (rx[r] = "open" /\ (TreeFiles(t) \cap TreeFiles("d") = {} \/ t = "d")) =>
                   ENABLED (Coordinator(r) \/ Worker(r) \/ next(r))
            /\ (Ended(r) /\ co[r].pc = "done"
                  /\ (TreeFiles(t) \cap TreeFiles("d") = {} \/ t = "d")) =>
                   Total(r) = SumSizes(TreeFiles("d"))
                              + IF co[r].follow_links /\ t # "d"
                                THEN SumSizes(TreeFiles(t)) ELSE 0

\* a run with followLinks = true over d, whose link d/l leads to the outside
\* directory e, has ended having counted e/c once
C13_Witness ==
    \E r \in Runs :
        /\ OnlyDir(r, "d") /\ fs.link = "e" /\ co[r].follow_links
        /\ Ended(r) /\ mode[r] = "warm"
        /\ Times(r, "e/c") = 1
        /\ Total(r) = 3200

-----------------------------------------------------------------------------
\* the jobs of run r that have passed their body
Past(r) == {j \in 1..Len(jobs[r]) : jobs[r][j].pc \in {"returning", "done"}}

\* the file system answers a metadata query on regular file f
MetadataAvailable(f) == ~(fs.fault.op = "meta" /\ fs.fault.file = f)

\* C14: a job of an estimate run sends at most once and opens and reads
\* nothing.  Past its body, a job whose path denotes a regular file (itself or
\* through a link) has sent exactly one value, the file's size (0 for an empty
\* file), when the file's metadata is available, and nothing when it is not;
\* a job whose path denotes nothing has sent nothing
C14_EstimateJobSendsSizeOnce ==
    \A r \in Runs : mode[r] = "estimate" =>
        \A j \in 1..Len(jobs[r]) :
            LET job == jobs[r][j]
                f == Follow(job.path)
            IN  /\ job.sends <= 1
                /\ job.opened = "" /\ job.off = 0 /\ job.pc # "reading"
                /\ (j \in Past(r) /\ f \in RegularFiles /\ MetadataAvailable(f)) =>
                       /\ job.sends = 1
                       /\ job.sent = <<fs.size[f]>>
                /\ (j \in Past(r) /\ f \in RegularFiles /\ ~MetadataAvailable(f)) =>
                       job.sends = 0
                /\ (j \in Past(r) /\ Kind(f) = "none") => job.sends = 0

\* an estimate run over d, where d/a is empty, has ended with the values 0
\* and 2000
C14_Witness ==
    \E r \in Runs :
        /\ OnlyDir(r, "d") /\ mode[r] = "estimate" /\ Ended(r)
        /\ fs.size["d/a"] = 0
        /\ got[r] = << <<0>>, <<2000>> >>

-----------------------------------------------------------------------------
\* C15: a job of a file target sends values only when the target's path
\* denotes a regular file, itself or through a symbolic link; a target that is
\* a directory, a link to something that is not a regular file, a broken link
\* or a missing path sends nothing, in estimate and in warm runs
C15_OnlyRegularFilesEmit ==
    \A r \in Runs : \A j \in 1..Len(jobs[r]) :
        (jobs[r][j].src = "file" /\ jobs[r][j].sends > 0)
            => Kind(Follow(jobs[r][j].path)) = "file"

-----------------------------------------------------------------------------
\* the chunk values of a file of n bytes read to its end
Chunks(n) == [i \in 1..CeilDiv(n, ChunkSize) |-> Min(ChunkSize, n - (i - 1) * ChunkSize)]

\* what a warm job on regular file f delivers under the file system's fault:
\* nothing when f cannot be opened, the chunks read before the failing read
\* when a read fails, all chunks otherwise
Delivered(f) ==
    IF fs.fault.file = f /\ fs.fault.op \in {"open", "meta"} THEN <<>>
    ELSE IF fs.fault.file = f /\ fs.fault.op = "read"
         THEN SubSeq(Chunks(fs.size[f]), 1, fs.fault.after \div ChunkSize)
    ELSE Chunks(fs.size[f])

RECURSIVE SumDelivered(_, _)
SumDelivered(r, j) ==
    IF j = 0 THEN 0
    ELSE SumDelivered(r, j - 1)
         + IF Follow(jobs[r][j].path) \in RegularFiles
           THEN SumSeq(Delivered(Follow(jobs[r][j].path))) ELSE 0

\* C16: in a warm run a job on a file that cannot be opened sends nothing; a
\* job whose read fails after k chunks returns as at end-of-file having sent
\* those k chunks and nothing more; the jobs of the other files send all
\* their chunks; the coordinator does not fail and the drained stream ends
\* with exactly the values delivered
C16_WarmErrorsAreSwallowed ==
    \A r \in Runs : mode[r] = "warm" =>
        /\ \A j \in 1..Len(jobs[r]) :
              LET job == jobs[r][j]
                  f == Follow(job.path)
              IN  f \in RegularFiles =>
                      /\ job.sends <= Len(Delivered(f))
                      /\ IsPrefix(job.sent, Delivered(f))
                      /\ j \in Past(r) =>
                             /\ job.sends = Len(Delivered(f))
                             /\ job.sent = Delivered(f)
        /\ co[r].num_threads >= 1 => co[r].pc # "panicked"
        /\ (Ended(r) /\ co[r].pc = "done") =>
               /\ Total(r) = SumDelivered(r, Len(jobs[r]))
               /\ \A j \in 1..Len(jobs[r]) : jobs[r][j].pc = "done"

\* a warm run over d has ended where the second read of d/s/b failed: d/a
\* gave its 500 bytes, d/s/b the one chunk read before the error
C16_Witness ==
    \E r \in Runs :
        /\ OnlyDir(r, "d") /\ mode[r] = "warm" /\ Ended(r)
        /\ fs.fault.op = "read" /\ fs.fault.file = "d/s/b"
        /\ got[r] = << <<500>>, <<1024>> >>

-----------------------------------------------------------------------------
\* the jobs of run r that were submitted and have not returned
Unfinished(r) == {j \in 1..Len(jobs[r]) : jobs[r][j].pc # "done"}

\* C17 as stated: the coordinator thread is never finished while a job it
\* submitted is still queued or running
C17_AsStated ==
    \A r \in Runs : co[r].pc = "done" => Unfinished(r) = {}

\* C17 amended: the coordinator thread may finish while jobs it submitted are
\* queued or running; those jobs keep their Senders, so the stream has not
\* ended, and the pool's workers go on with them after the pool was dropped
C17_JobsOutliveTheCoordinator ==
    \A r \in Runs :
        (co[r].pc = "done" /\ Unfinished(r) # {}) =>
            /\ senders[r] = Cardinality(Unfinished(r))
            /\ ~Ended(r)
            /\ ENABLED Worker(r)

\* the coordinator thread has finished with one job running, one queued and
\* a value already received
C17_Witness ==
    \E r \in Runs :
        /\ co[r].pc = "done"
        /\ queue[r] # <<>>
        /\ Executing(r) # {}
        /\ Count(r) >= 1

-----------------------------------------------------------------------------
\* C18: the values next() returned for one warm job on a readable regular
\* file of size S are, in the order received, the first chunks of the file:
\* floor(S/1024) values of 1024, then S mod 1024 when that is not 0; all of
\* them once the stream has ended, whatever other jobs sent in between
C18_ChunksInReadOrder ==
    \A r \in Runs : mode[r] = "warm" =>
        \A j \in 1..Len(jobs[r]) :
            LET f == Follow(jobs[r][j].path)
                S == fs.size[f]
                whole == [i \in 1..(S \div ChunkSize) |-> ChunkSize]
                expected == IF S % ChunkSize = 0 THEN whole
                            ELSE Append(whole, S % ChunkSize)
            IN  (f \in RegularFiles /\ Readable(f)) =>
                    /\ IsPrefix(got[r][j], expected)
                    /\ Ended(r) => got[r][j] = expected

\* two workers: the first chunk of d/s/b (2000 bytes) has been received, and
\* the value of d/a's job lies in the channel before the second chunk, 976
C18_Witness ==
    \E r \in Runs :
        /\ OnlyDir(r, "d") /\ mode[r] = "warm"
        /\ Len(jobs[r]) = 2
        /\ jobs[r][2].path = "d/s/b"
        /\ got[r][2] = <<1024>>
        /\ chan[r] = << <<1, 500>>, <<2, 976>> >>

-----------------------------------------------------------------------------
\* the coordinator of run r still has entries of a directory target to yield
\* or directory targets to walk
Walking(r) == co[r].pc = "loop" /\ (co[r].walk # <<>> \/ co[r].dirs # <<>>)

\* C19: the coordinator never waits for a job: while it is in its loops it
\* can take its next step (submit the next file or entry, open the next
\* walk, or return) whatever the jobs submitted so far are doing
C19_CoordinatorNeverWaits ==
    \A r \in Runs : co[r].pc = "loop" => ENABLED Coordinator(r)

\* walking and execution overlap: the consumer has received the value of a
\* discovered file and another job is executing while entries of the walk
\* are still to be submitted
C19_Witness ==
    \E r \in Runs :
        /\ Walking(r) /\ co[r].walk # <<>>
        /\ files = <<>>
        /\ Count(r) >= 1
        /\ Executing(r) # {}

-----------------------------------------------------------------------------
\* C20: a run of a Warmer with num_threads = 0 submits no job: its
\* coordinator fails at ThreadPool::new, which releases its Sender; the
\* consumer is never blocked for good, and the stream ends with no value, so
\* that the total is 0.  The failure stays in the coordinator thread
C20_ZeroThreadsEndsEmpty ==
    \A r \in Runs :
        (mode[r] # "idle" /\ co[r].num_threads = 0) =>
            /\ jobs[r] = <<>> /\ queue[r] = <<>> /\ chan[r] = <<>>
            /\ co[r].pc \in {"spawned", "panicked"}
            /\ co[r].pc = "panicked" => senders[r] = 0
            /\ rx[r] = "open" => ENABLED (PoolNew(r) \/ next(r))
            /\ Ended(r) => Total(r) = 0 /\ Count(r) = 0

\* a warm run with num_threads = 0 over d and x has ended, with nothing
\* received
C20_Witness ==
    \E r \in Runs :
        /\ mode[r] = "warm" /\ co[r].num_threads = 0
        /\ dirs = <<"d">> /\ files = <<"x">>
        /\ co[r].pc = "panicked"
        /\ Ended(r) /\ Total(r) = 0

=============================================================================
